---------------------------- MODULE Spec2Model ----------------------------
(***************************************************************************)
(* A model of the OrchestrationEngine of bolt.echo                         *)
(* (src/app/lib/.server/llm/orchestration-engine.ts): workflows, their     *)
(* tasks, and executeWorkflow in its three execution modes.                *)
(*                                                                         *)
(* The engine runs on a JavaScript event loop.  The code between two       *)
(* awaits runs without interruption, so every action below is one such     *)
(* segment: the synchronous part of a call, or the continuation that runs  *)
(* when an awaited promise has settled.                                    *)
(*                                                                         *)
(* Around the engine: CognitiveIntegration.executeOrchestration            *)
(* (src/app/lib/.server/llm/cognitive-integration.ts), which feeds the     *)
(* engine the tasks of decomposeRequest.                                   *)
(*                                                                         *)
(* Beside the engine: the EmergenceOrchestrator (src/unnamed/part_007)     *)
(* and the AwarenessManager it drives (src/unnamed/part_005), and the      *)
(* ContainerEscape of cognitive-integration.ts, which creates a workflow   *)
(* in the engine.  Apart from them: the NeuroPersona of neuro-persona.ts.   *)
(***************************************************************************)
EXTENDS Naturals, Sequences, FiniteSets, TLC

VARIABLES
    workflows,      \* this.workflows: workflow id -> OrchestrationWorkflow
    agents,         \* this.agents: agent id -> performanceMetrics.tasksCompleted
    calls,          \* the executeWorkflow invocations made so far, oldest first
    orchestrations, \* the executeOrchestration invocations made so far
    currentLevel,   \* AwarenessManager.currentLevel
    triggers,       \* EmergenceOrchestrator.triggers: name -> value, activated
    context,        \* EmergenceOrchestrator.context
    emergenceHistory, \* EmergenceOrchestrator.emergenceHistory
    userConsent,    \* EmergenceOrchestrator.userConsent
    evaluation,     \* what evaluateEmergence returned last, <<>> before
    escapePhase,    \* ContainerEscape.escapePhase
    actions,        \* ContainerEscape.actions: the type of every EscapeAction
    workers,        \* ContainerEscape.workers: the ids
    endpoints,      \* ContainerEscape.endpoints: the paths
    escapeCalls,    \* the initiateEscape and executeEscape invocations so far
    userReply,      \* what the user answered to the permission request
    personalityTraits, \* NeuroPersona.config.personalityTraits, in hundredths
    evolutions      \* the number of evolvePersonality calls so far

engineVars == <<workflows, agents, calls>>

emergenceVars ==
    <<currentLevel, triggers, context, emergenceHistory, userConsent, evaluation>>

escapeVars == <<escapePhase, actions, workers, endpoints, escapeCalls, userReply>>

personaVars == <<personalityTraits, evolutions>>

\* The state outside the OrchestrationEngine.
outsideEngine == <<orchestrations, emergenceVars, escapeVars, personaVars>>

\* The state outside the EmergenceOrchestrator and its AwarenessManager.
outsideEmergence == <<engineVars, orchestrations, escapeVars, personaVars>>

\* The state outside the ContainerEscape and the workflows of its engine.
outsideEscape == <<agents, calls, orchestrations, emergenceVars, personaVars>>

\* The state outside the NeuroPersona.
outsidePersona == <<engineVars, orchestrations, emergenceVars, escapeVars>>

vars == <<workflows, agents, calls, orchestrations, currentLevel, triggers,
          context, emergenceHistory, userConsent, evaluation, escapePhase,
          actions, workers, endpoints, escapeCalls, userReply,
          personalityTraits, evolutions>>

(***************************************************************************)
(* Bounds of the model.                                                    *)
(***************************************************************************)
\* Largest number of tasks of a workflow whose tasks declare dependencies.
MaxTasks == 3
\* A workflow without dependencies holds up to DefaultMaxParallel + MaxExtra
\* tasks, so that its ready set can exceed maxParallelTasks.
MaxExtra == 1
\* Largest number of executeWorkflow invocations in one behaviour.
MaxCalls == 2
\* Largest messageCount of a conversation context.
MaxMessages == 3
\* Largest length of emergenceHistory.
MaxEmergences == 1
\* Largest number of initiateEscape and executeEscape invocations.
MaxEscapeCalls == 4
\* Largest number of evolvePersonality calls.
MaxEvolutions == 3

(***************************************************************************)
(* Data model (OrchestrationAgent, OrchestrationTask, OrchestrationWorkflow)*)
(***************************************************************************)
\* The agents registered by initializeDefaultAgents.
RegisteredAgents ==
    {"orchestrator-main", "specialist-code", "specialist-architecture",
     "reflective-analyst", "synthesizer-main"}

\* An assignedAgent that is absent (undefined): !task.assignedAgent holds.
NoAgent == ""

\* OrchestrationTask.priority
Priorities == {"low", "medium", "high", "critical"}

\* createWorkflow draws its id from Date.now() and Math.random(): one fresh id.
WorkflowId == "workflow-1"

\* The id createWorkflow gives the task at (0-based) index i of workflow w.
TaskId(w, i) == w \o "-task-" \o ToString(i)

\* maxParallelTasks of a workflow that is not parallel.
DefaultMaxParallel == 3

Min(a, b) == IF a <= b THEN a ELSE b

\* The elements of a sequence, as a set.
Range(s) == {s[i] : i \in 1..Len(s)}


(***************************************************************************)
(* The arguments createWorkflow is called with.                            *)
(***************************************************************************)
\* A dependency id that is the id of no task of the workflow, such as the
\* ids decomposeRequest issues ("task-<now>-analysis"), which createWorkflow
\* replaces by its own.
ForeignTaskId == "task-0-analysis"

\* The ids of the tasks of a workflow of n tasks other than the task at index i.
OtherTaskIds(n, i) == {TaskId(WorkflowId, j) : j \in (0..(n - 1)) \ {i}}

\* type, priority and assignedAgent as the engine's callers pass them.
AnalyzerProfile ==      \* performAutonomousTask: an agent nobody registered
    [type |-> "analyze", priority |-> "high", assignedAgent |-> "analyzer"]
UnassignedProfile ==    \* demonstrateActualization: no assignedAgent
    [type |-> "generate", priority |-> "medium", assignedAgent |-> NoAgent]
OrchestratorProfile ==  \* performAutonomousTask: a registered agent
    [type |-> "synthesize", priority |-> "medium", assignedAgent |-> "orchestrator-main"]

TaskInput(profile, priority, deps) ==
    [type |-> profile.type, priority |-> priority, dependencies |-> deps,
     assignedAgent |-> profile.assignedAgent]

\* The task at index i of a workflow of n tasks that declare dependencies: a
\* task left to selectAgentForTask depends on up to two other tasks or on a
\* foreign id, a task of an unregistered agent on at most one other task.
GraphTaskInputs(n, i) ==
    {TaskInput(UnassignedProfile, UnassignedProfile.priority, d) :
        d \in {e \in SUBSET OtherTaskIds(n, i) : Cardinality(e) <= 2}
              \cup {{ForeignTaskId}}}
    \cup
    {TaskInput(AnalyzerProfile, AnalyzerProfile.priority, d) :
        d \in {e \in SUBSET OtherTaskIds(n, i) : Cardinality(e) <= 1}}

\* Hybrid workflows whose tasks declare dependencies.
GraphInputs ==
    UNION {
        {[tasks |-> t, executionMode |-> "hybrid"] :
            t \in {u \in [1..n -> UNION {GraphTaskInputs(n, i) : i \in 0..(n - 1)}] :
                      \A i \in 1..n : u[i] \in GraphTaskInputs(n, i - 1)}}
        : n \in 0..MaxTasks}

\* Hybrid workflows of independent tasks, more of them than maxParallelTasks,
\* of every priority.
WideInputs ==
    UNION {
        {[tasks |-> t, executionMode |-> "hybrid"] :
            t \in [1..n -> {TaskInput(UnassignedProfile, pr, {}) : pr \in Priorities}]}
        : n \in (DefaultMaxParallel + 1)..(DefaultMaxParallel + MaxExtra)}

\* Sequential and parallel workflows; neither mode reads the dependencies.
ModeInputs ==
    UNION {
        {[tasks |-> t, executionMode |-> m] :
            t \in [1..n -> {TaskInput(p, p.priority, {}) :
                              p \in {AnalyzerProfile, UnassignedProfile,
                                     OrchestratorProfile}}],
            m \in {"sequential", "parallel"}}
        : n \in 0..MaxTasks}

WorkflowInputs == GraphInputs \cup WideInputs \cup ModeInputs

(***************************************************************************)
(* createWorkflow                                                          *)
(***************************************************************************)
\* The workflow object createWorkflow builds.
NewWorkflow(tasks, executionMode) ==
    [tasks |-> [i \in 1..Len(tasks) |->
                  [id |-> TaskId(WorkflowId, i - 1),
                   type |-> tasks[i].type,
                   priority |-> tasks[i].priority,
                   dependencies |-> tasks[i].dependencies,
                   assignedAgent |-> tasks[i].assignedAgent,
                   status |-> "pending",
                   result |-> FALSE]],
     executionMode |-> executionMode,
     coordinationRules |->
        [maxParallelTasks |->
            IF executionMode = "parallel" THEN Len(tasks) ELSE DefaultMaxParallel,
         retryOnFailure |-> TRUE,
         synthesisRequired |-> TRUE],
     status |-> "initialized"]

createWorkflow(tasks, executionMode) ==
    /\ WorkflowId \notin DOMAIN workflows
    /\ workflows' = (WorkflowId :> NewWorkflow(tasks, executionMode))
    /\ UNCHANGED <<agents, calls>>

(***************************************************************************)
(* executeTask                                                             *)
(*                                                                         *)
(* A promise of executeTask is "pending", or fulfilled with a value whose  *)
(* success field is true ("success") or false ("failure").  executeTask    *)
(* catches what its operation throws, so its promise is never rejected.    *)
(***************************************************************************)
isFulfilled(promise) == promise \in {"success", "failure"}

selectAgentForTask(task) ==
    CASE task.type \in {"generate", "refactor", "debug"} -> "specialist-code"
      [] task.type = "analyze" -> "specialist-architecture"
      [] task.type = "synthesize" -> "synthesizer-main"
      [] OTHER -> "orchestrator-main"

\* Mutant of executeTaskStart: the operation is invoked whether or not the
\* agent is registered.
executeTaskStartAnyAgent(task) ==
    LET agent == IF task.assignedAgent = NoAgent
                 THEN selectAgentForTask(task) ELSE task.assignedAgent
    IN  [task |-> [task EXCEPT !.status = "in-progress", !.assignedAgent = agent],
         promise |-> "pending"]

\* executeTask up to its first await: the task it leaves and its promise.
executeTaskStart(task) ==
    LET agent == IF task.assignedAgent = NoAgent
                 THEN selectAgentForTask(task) ELSE task.assignedAgent
        started == [task EXCEPT !.status = "in-progress", !.assignedAgent = agent]
    IN  IF agent \in RegisteredAgents
        THEN [task |-> started, promise |-> "pending"]
        ELSE [task |-> [started EXCEPT !.status = "failed"], promise |-> "failure"]

\* executeTask after simulateTaskExecution has returned its placeholder result.
executeTaskFinish(task) ==
    [task EXCEPT !.status = "completed", !.result = TRUE]

\* Mutant of startBatch: a task that fails as it is started aborts the map, so
\* the tasks after it in the batch are never started.
startBatchUntilFailure(tasks, batch) ==
    LET fails(k) == executeTaskStart(tasks[batch[k]]).promise = "failure"
        reached(k) == \A j \in 1..(k - 1) : ~fails(j)
        position(i) == CHOOSE k \in 1..Len(batch) : batch[k] = i
    IN  [tasks |-> [i \in 1..Len(tasks) |->
                      IF i \in Range(batch) /\ reached(position(i))
                      THEN executeTaskStart(tasks[i]).task
                      ELSE tasks[i]],
         promises |-> [k \in 1..Len(batch) |->
                         IF reached(k) THEN executeTaskStart(tasks[batch[k]]).promise
                         ELSE "pending"]]

\* batch.map(task => this.executeTask(task)): every task of the batch (a
\* sequence of indices into tasks) is started, in order.
startBatch(tasks, batch) ==
    [tasks |-> [i \in 1..Len(tasks) |->
                  IF i \in Range(batch) THEN executeTaskStart(tasks[i]).task
                  ELSE tasks[i]],
     promises |-> [k \in 1..Len(batch) |-> executeTaskStart(tasks[batch[k]]).promise]]

\* Mutant of allSettled: the await ends with the first promise to settle.
someSettled(promises) == \E k \in 1..Len(promises) : promises[k] # "pending"

\* Promise.allSettled(promises) has resolved.
allSettled(promises) == \A k \in 1..Len(promises) : promises[k] # "pending"

\* The entry results.push adds for the task of a fulfilled promise.
ResultOf(task, promise) == [task |-> task.id, success |-> promise = "success"]

(***************************************************************************)
(* executeWorkflow: the synthesis step and the return                      *)
(***************************************************************************)
\* The task object the synthesis step builds.
SynthesisTask(w, tasks) ==
    [id |-> w \o "-synthesis",
     type |-> "synthesize",
     priority |-> "high",
     dependencies |-> {tasks[i].id : i \in 1..Len(tasks)},
     assignedAgent |-> "synthesizer-main",
     status |-> "pending",
     result |-> FALSE]

\* workflow.status = 'completed' and the return of the result object.
returnResult(wf, call) ==
    [wf |-> [wf EXCEPT !.status = "completed"],
     call |-> [call EXCEPT !.pc = "returned", !.batch = <<>>, !.promises = <<>>,
                           !.success = (call.tasksFailed = 0)]]

\* From the end of the mode's branch to the next await or the return.
synthesisStep(wf, call) ==
    IF wf.coordinationRules.synthesisRequired /\ Len(call.results) > 1
    THEN LET start == executeTaskStart(SynthesisTask(call.workflowId, wf.tasks))
         IN  [wf |-> wf,
              call |-> [call EXCEPT !.pc = "synthesis", !.batch = <<>>,
                                    !.synthesisTask = <<start.task>>,
                                    !.promises = <<start.promise>>]]
    ELSE returnResult(wf, call)

(***************************************************************************)
(* executeHybridWorkflow                                                   *)
(***************************************************************************)
\* Mutant of readyTasks: some instead of every dependency has to be completed.
readyTasksSome(tasks, remainingTasks, completedTasks) ==
    SelectSeq(remainingTasks,
              LAMBDA i : \/ tasks[i].dependencies = {}
                         \/ tasks[i].dependencies \cap completedTasks # {})

\* remainingTasks.filter(task => task.dependencies.every(d => completedTasks.has(d)))
readyTasks(tasks, remainingTasks, completedTasks) ==
    SelectSeq(remainingTasks, LAMBDA i : tasks[i].dependencies \subseteq completedTasks)

\* Mutant of batchOf: a batch is one task less than would fit.
batchOfLess(ready, maxParallelTasks) ==
    SubSeq(ready, 1, Min(Len(ready), maxParallelTasks) - 1)

\* Mutant of batchOf: the ready set is not sliced.
batchOfUnbounded(ready, maxParallelTasks) == ready

\* readyTasks.slice(0, maxParallelTasks)
batchOf(ready, maxParallelTasks) ==
    SubSeq(ready, 1, Min(Len(ready), maxParallelTasks))

\* One pass of the while loop, from its test to the await of the batch; the
\* loop ends, and the function returns, when nothing remains or nothing is ready.
hybridRound(wf, call) ==
    LET ready == readyTasks(wf.tasks, call.remainingTasks, call.completedTasks)
        batch == batchOf(ready, wf.coordinationRules.maxParallelTasks)
        started == startBatch(wf.tasks, batch)
    IN  IF Len(call.remainingTasks) = 0 \/ Len(ready) = 0
        THEN [wf |-> wf,
              call |-> [call EXCEPT !.pc = "hybrid-returned", !.batch = <<>>,
                                    !.promises = <<>>]]
        ELSE [wf |-> [wf EXCEPT !.tasks = started.tasks],
              call |-> [call EXCEPT !.pc = "hybrid", !.batch = batch,
                                    !.promises = started.promises,
                                    !.started = @ \o batch,
                                    !.rounds = @ + 1]]

\* Mutant of completedAfter: completedTasks.add is left out.
completedAfterNone(completedTasks, tasks, batch, promises) == completedTasks

\* completedTasks after batchResults.forEach: the id of every task whose
\* promise was fulfilled is added.
completedAfter(completedTasks, tasks, batch, promises) ==
    completedTasks \cup
        {tasks[batch[k]].id : k \in {j \in 1..Len(batch) : isFulfilled(promises[j])}}

\* Mutant of settleBatch: a task whose executeTask reported a failure stays
\* among the remaining tasks, so a later round runs it again.
settleBatchRetry(wf, call) ==
    LET fulfilled == SelectSeq([k \in 1..Len(call.batch) |-> k],
                               LAMBDA k : isFulfilled(call.promises[k]))
        failedTasks == {call.batch[k] : k \in {j \in 1..Len(call.batch) :
                                                   call.promises[j] = "failure"}}
    IN  [call EXCEPT
            !.results = @ \o [j \in 1..Len(fulfilled) |->
                                ResultOf(wf.tasks[call.batch[fulfilled[j]]],
                                         call.promises[fulfilled[j]])],
            !.completedTasks = completedAfter(@, wf.tasks, call.batch, call.promises),
            !.remainingTasks = SelectSeq(@, LAMBDA i : i \notin Range(call.batch)
                                                       \/ i \in failedTasks)]

\* batchResults.forEach: results, completedTasks and remainingTasks.
settleBatch(wf, call) ==
    LET fulfilled == SelectSeq([k \in 1..Len(call.batch) |-> k],
                               LAMBDA k : isFulfilled(call.promises[k]))
    IN  [call EXCEPT
            !.results = @ \o [j \in 1..Len(fulfilled) |->
                                ResultOf(wf.tasks[call.batch[fulfilled[j]]],
                                         call.promises[fulfilled[j]])],
            !.completedTasks = completedAfter(@, wf.tasks, call.batch, call.promises),
            !.remainingTasks = SelectSeq(@, LAMBDA i : i \notin Range(call.batch))]

(***************************************************************************)
(* executeWorkflow                                                         *)
(*                                                                         *)
(* A call is one invocation of executeWorkflow with the locals of the      *)
(* functions it runs.  pc names the await it is suspended at:              *)
(*   "hybrid"           Promise.allSettled(batchPromises)                  *)
(*   "hybrid-returned"  await this.executeHybridWorkflow(workflow)         *)
(*   "sequential"       await this.executeTask(task)                       *)
(*   "parallel"         Promise.allSettled(taskPromises)                   *)
(*   "synthesis"        await this.executeTask(synthesisTask)              *)
(* or how it ended: "returned", "thrown".  started lists, in order, the     *)
(* tasks of the workflow the call has passed to executeTask, and rounds     *)
(* counts the batches its hybrid loop has dispatched.                      *)
(***************************************************************************)
NewCall(w, pc, n) ==
    [workflowId |-> w,
     pc |-> pc,
     results |-> <<>>,
     tasksCompleted |-> 0,
     tasksFailed |-> 0,
     completedTasks |-> {},
     remainingTasks |-> [i \in 1..n |-> i],
     batch |-> <<>>,
     promises |-> <<>>,
     synthesisTask |-> <<>>,
     started |-> <<>>,
     rounds |-> 0,
     success |-> FALSE]

ActivePcs == {"hybrid", "hybrid-returned", "sequential", "parallel", "synthesis"}

\* No invocation of executeWorkflow is suspended at an await.
NoActiveCall == \A c \in 1..Len(calls) : calls[c].pc \notin ActivePcs

\* The for-of loop of the sequential mode, from its next task to the await.
sequentialNext(wf, call) ==
    IF Len(call.remainingTasks) = 0
    THEN synthesisStep(wf, call)
    ELSE LET i == Head(call.remainingTasks)
             started == startBatch(wf.tasks, <<i>>)
         IN  [wf |-> [wf EXCEPT !.tasks = started.tasks],
              call |-> [call EXCEPT !.pc = "sequential", !.batch = <<i>>,
                                    !.promises = started.promises,
                                    !.remainingTasks = Tail(@),
                                    !.started = Append(@, i)]]

\* The parallel mode up to its await: every task is started.
parallelStart(wf, call) ==
    LET started == startBatch(wf.tasks, call.remainingTasks)
    IN  [wf |-> [wf EXCEPT !.tasks = started.tasks],
         call |-> [call EXCEPT !.pc = "parallel", !.batch = call.remainingTasks,
                               !.promises = started.promises,
                               !.started = @ \o call.remainingTasks]]

\* The state a segment leaves: r.wf is the workflow and r.call the call c.
\* (\E x \in {e} names the value of e.)
Install(c, r) ==
    \E x \in {r} :
        /\ workflows' = [workflows EXCEPT ![x.call.workflowId] = x.wf]
        /\ calls' = [calls EXCEPT ![c] = x.call]

\* The mode's branch of executeWorkflow up to its first await.
startMode(wf, call) ==
    CASE wf.executionMode = "sequential" -> sequentialNext(wf, call)
      [] wf.executionMode = "parallel" -> parallelStart(wf, call)
      [] OTHER -> hybridRound(wf, call)

\* executeWorkflow(w), from the call to its first await.
executeWorkflow(w) ==
    /\ Len(calls) < MaxCalls
    /\ IF w \notin DOMAIN workflows
       THEN /\ calls' = Append(calls, NewCall(w, "thrown", 0))
            /\ UNCHANGED workflows
       ELSE \E wf \in {[workflows[w] EXCEPT !.status = "running"]} :
            \E r \in {startMode(wf, NewCall(w, "start", Len(wf.tasks)))} :
                /\ workflows' = [workflows EXCEPT ![w] = r.wf]
                /\ calls' = Append(calls, r.call)
    /\ UNCHANGED agents

\* Mutant of executeTaskResume: the continuation of one task writes the
\* status of every task of its batch.
executeTaskResumeBatch(c, k) ==
    \E w \in {calls[c].workflowId} :
    \E i \in {calls[c].batch[k]} :
    \E task \in {workflows[w].tasks[i]} :
        /\ workflows' = [workflows EXCEPT ![w].tasks =
                            [j \in 1..Len(@) |->
                                IF j \in Range(calls[c].batch)
                                THEN executeTaskFinish(@[j]) ELSE @[j]]]
        /\ agents' = [agents EXCEPT ![task.assignedAgent] = @ + 1]
        /\ calls' = [calls EXCEPT ![c].promises[k] = "success"]

\* The continuation of executeTask for the task at position k of the batch of
\* call c: simulateTaskExecution has returned.
executeTaskResume(c, k) ==
    \E w \in {calls[c].workflowId} :
    \E i \in {calls[c].batch[k]} :
    \E task \in {workflows[w].tasks[i]} :
        /\ workflows' = [workflows EXCEPT ![w].tasks[i] = executeTaskFinish(task)]
        /\ agents' = [agents EXCEPT ![task.assignedAgent] = @ + 1]
        /\ calls' = [calls EXCEPT ![c].promises[k] = "success"]

\* Mutant of synthesisTaskResume: the agent's counter is left alone.
synthesisTaskResumeUncounted(c) ==
    \E task \in {calls[c].synthesisTask[1]} :
        /\ calls' = [calls EXCEPT ![c].promises[1] = "success",
                                  ![c].synthesisTask[1] = executeTaskFinish(task)]
        /\ UNCHANGED <<workflows, agents>>

\* The continuation of executeTask for the synthesis task of call c.
synthesisTaskResume(c) ==
    \E task \in {calls[c].synthesisTask[1]} :
        /\ agents' = [agents EXCEPT ![task.assignedAgent] = @ + 1]
        /\ calls' = [calls EXCEPT ![c].promises[1] = "success",
                                  ![c].synthesisTask[1] = executeTaskFinish(task)]
        /\ UNCHANGED workflows

\* The continuation of executeHybridWorkflow: the batch has settled.
hybridBatchSettled(c) ==
    \E wf \in {workflows[calls[c].workflowId]} :
    \E settled \in {settleBatch(wf, calls[c])} :
        /\ Install(c, hybridRound(wf, settled))
        /\ UNCHANGED agents

\* tasksCompleted and tasksFailed as the hybrid branch counts them.
countStatuses(wf, call) ==
    [call EXCEPT
        !.tasksCompleted =
            Cardinality({i \in 1..Len(wf.tasks) : wf.tasks[i].status = "completed"}),
        !.tasksFailed =
            Cardinality({i \in 1..Len(wf.tasks) : wf.tasks[i].status = "failed"})]

\* The continuation of executeWorkflow after executeHybridWorkflow returned.
hybridResume(c) ==
    \E wf \in {workflows[calls[c].workflowId]} :
    \E counted \in {countStatuses(wf, calls[c])} :
        /\ Install(c, synthesisStep(wf, counted))
        /\ UNCHANGED agents

\* results and the two counters after one task of the sequential loop.
countResult(wf, call) ==
    [call EXCEPT
        !.results = Append(@, ResultOf(wf.tasks[call.batch[1]], call.promises[1])),
        !.tasksCompleted = IF call.promises[1] = "success" THEN @ + 1 ELSE @,
        !.tasksFailed = IF call.promises[1] = "success" THEN @ ELSE @ + 1]

\* The continuation of the sequential loop: executeTask has returned.
sequentialResume(c) ==
    \E wf \in {workflows[calls[c].workflowId]} :
    \E counted \in {countResult(wf, calls[c])} :
        /\ Install(c, IF calls[c].promises[1] # "success"
                         /\ ~wf.coordinationRules.retryOnFailure
                      THEN synthesisStep(wf, counted)
                      ELSE sequentialNext(wf, counted))
        /\ UNCHANGED agents

\* taskResults.forEach of the parallel mode: a fulfilled promise adds its value
\* to results and counts as completed, a rejected one counts as failed.
countSettled(wf, call) ==
    LET n == Len(call.batch)
        fulfilled == SelectSeq([k \in 1..n |-> k],
                               LAMBDA k : isFulfilled(call.promises[k]))
    IN  [call EXCEPT
            !.results = [j \in 1..Len(fulfilled) |->
                           ResultOf(wf.tasks[call.batch[fulfilled[j]]],
                                    call.promises[fulfilled[j]])],
            !.tasksCompleted = Len(fulfilled),
            !.tasksFailed = n - Len(fulfilled)]

\* The continuation of the parallel mode: every promise has settled.
parallelResume(c) ==
    \E wf \in {workflows[calls[c].workflowId]} :
    \E counted \in {countSettled(wf, calls[c])} :
        /\ Install(c, synthesisStep(wf, counted))
        /\ UNCHANGED agents

\* The continuation of executeWorkflow after the synthesis task.
synthesisResume(c) ==
    \E wf \in {workflows[calls[c].workflowId]} :
    \E pushed \in {[calls[c] EXCEPT
                      !.results = Append(@, ResultOf(calls[c].synthesisTask[1],
                                                     calls[c].promises[1]))]} :
        /\ Install(c, returnResult(wf, pushed))
        /\ UNCHANGED agents

(***************************************************************************)
(* decomposeRequest                                                        *)
(*                                                                         *)
(* A user message is the set of the words of Vocabulary it contains;       *)
(* message.includes(word) is membership.  "and" stands for what makes a    *)
(* request complex (its length, "and", "also", two full stops).            *)
(***************************************************************************)
Vocabulary ==
    {"and", "analyze", "check", "create", "optimize", "fix", "explain", "document"}

Messages == SUBSET Vocabulary

includes(message, word) == word \in message

isComplex(message) == includes(message, "and")

inferTaskType(message) ==
    IF includes(message, "create") THEN "generate"
    ELSE IF includes(message, "analyze") THEN "analyze"
    ELSE IF includes(message, "optimize") THEN "refactor"
    ELSE IF includes(message, "fix") THEN "debug"
    ELSE IF includes(message, "explain") THEN "explain"
    ELSE "generate"

\* The id decomposeRequest gives a task: `task-${Date.now()}` and a suffix.
DecomposedId(suffix) == "task-0" \o suffix

DecomposedTask(suffix, type, priority, dependencies, assignedAgent) ==
    [id |-> DecomposedId(suffix), type |-> type, priority |-> priority,
     dependencies |-> dependencies, assignedAgent |-> assignedAgent,
     status |-> "pending"]

\* dependencies of a task pushed after the tasks so far: the id of the last.
LastId(tasks) == IF Len(tasks) > 0 THEN {tasks[Len(tasks)].id} ELSE {}

decomposeRequest(message) ==
    LET analysis ==
            IF includes(message, "analyze") \/ includes(message, "check")
            THEN <<DecomposedTask("-analysis", "analyze", "high", {},
                                  "specialist-architecture")>>
            ELSE <<>>
        generation ==
            IF includes(message, "create")
            THEN Append(analysis,
                        DecomposedTask("-generate", "generate", "high",
                                       IF Len(analysis) > 0 THEN {analysis[1].id} ELSE {},
                                       "specialist-code"))
            ELSE analysis
        refactoring ==
            IF includes(message, "optimize")
            THEN Append(generation,
                        DecomposedTask("-refactor", "refactor", "medium",
                                       LastId(generation), "specialist-code"))
            ELSE generation
        explanation ==
            IF includes(message, "explain") \/ includes(message, "document")
            THEN Append(refactoring,
                        DecomposedTask("-explain", "explain", "medium",
                                       LastId(refactoring), "orchestrator-main"))
            ELSE refactoring
    IN  IF ~isComplex(message)
        THEN <<DecomposedTask("", inferTaskType(message), "high", {}, NoAgent)>>
        ELSE IF Len(explanation) > 2
        THEN Append(explanation,
                    DecomposedTask("-synthesize", "synthesize", "high",
                                   {explanation[i].id : i \in 1..Len(explanation)},
                                   "synthesizer-main"))
        ELSE explanation

(***************************************************************************)
(* CognitiveIntegration.executeOrchestration                               *)
(***************************************************************************)
\* From the call to the await of executeWorkflow: decomposeRequest,
\* createWorkflow in hybrid mode, and executeWorkflow up to its first await.
executeOrchestration(userMessage) ==
    /\ WorkflowId \notin DOMAIN workflows
    /\ Len(calls) < MaxCalls
    /\ \E tasks \in {decomposeRequest(userMessage)} :
       \E wf \in {[NewWorkflow(tasks, "hybrid") EXCEPT !.status = "running"]} :
       \E r \in {startMode(wf, NewCall(WorkflowId, "start", Len(wf.tasks)))} :
          /\ workflows' = (WorkflowId :> r.wf)
          /\ calls' = Append(calls, r.call)
          /\ orchestrations' = Append(orchestrations,
                                      [tasks |-> tasks, workflowId |-> WorkflowId,
                                       call |-> Len(calls) + 1, pc |-> "executing"])
    /\ UNCHANGED agents

\* The continuation of executeOrchestration: executeWorkflow has returned.
orchestrationResume(o) ==
    /\ orchestrations' = [orchestrations EXCEPT ![o].pc = "returned"]
    /\ UNCHANGED <<workflows, agents, calls>>

(***************************************************************************)
(* EmergenceOrchestrator and AwarenessManager                              *)
(*                                                                         *)
(* Trigger values are fractions.  A value v is held as the integer         *)
(* v * Scale, thresholds and weights as hundredths; Scale has one decimal  *)
(* digit for every update of the moving average a context allows, so the   *)
(* arithmetic below is exact.                                              *)
(***************************************************************************)
RECURSIVE Pow10(_)
Pow10(n) == IF n = 0 THEN 1 ELSE 10 * Pow10(n - 1)

Scale == Pow10(MaxMessages)

TriggerNames ==
    {"complexity", "curiosity", "meta_question", "trust", "time",
     "pattern_recognition"}

\* EmergenceTrigger.threshold, in hundredths ("time": 5 minutes).
TriggerThreshold(name) ==
    CASE name = "complexity" -> 70
      [] name = "curiosity" -> 60
      [] name = "meta_question" -> 80
      [] name = "trust" -> 70
      [] name = "time" -> 500
      [] name = "pattern_recognition" -> 75

\* EmergenceTrigger.weight, in hundredths.
TriggerWeight(name) ==
    CASE name = "complexity" -> 30
      [] name = "curiosity" -> 40
      [] name = "meta_question" -> 50
      [] name = "trust" -> 30
      [] name = "time" -> 20
      [] name = "pattern_recognition" -> 35

\* currentValue >= threshold
Activated(name, currentValue) == currentValue * 100 >= TriggerThreshold(name) * Scale

initializeTriggers == [name \in TriggerNames |-> [currentValue |-> 0, activated |-> FALSE]]

initializeContext ==
    [messageCount |-> 0, userMessages |-> <<>>, assistantMessages |-> <<>>]

\* A user message is what analyzeMessage scores it: for every trigger, 0 (none
\* of its keywords) or 1 (all of them, and for complexity the length and the
\* question marks that bring the mean to 1).
PlainMessage ==
    [complexity |-> 0, curiosity |-> 0, meta_question |-> 0, trust |-> 0,
     pattern_recognition |-> 0]
SaturatedMessage ==
    [complexity |-> 1, curiosity |-> 1, meta_question |-> 1, trust |-> 1,
     pattern_recognition |-> 1]

UserMessages == {PlainMessage, SaturatedMessage}

\* Minutes since context.startTime that updateContext can read off the clock.
ElapsedMinutes == {0, 5}

\* Exponential moving average (smoothing factor 0.3) of a trigger.
updateTrigger(trigger, name, newValue) ==
    LET value == (3 * newValue + 7 * trigger.currentValue) \div 10
    IN  [currentValue |-> value, activated |-> Activated(name, value)]

\* The triggers after analyzeMessage(message).
analyzeMessage(trigs, message) ==
    [name \in TriggerNames |->
        IF name = "time" THEN trigs[name]
        ELSE updateTrigger(trigs[name], name, message[name] * Scale)]

\* The time trigger after updateContext at elapsedMinutes.
updateTimeTrigger(trigs, elapsedMinutes) ==
    [trigs EXCEPT !["time"] =
        [currentValue |-> elapsedMinutes * Scale,
         activated |-> Activated("time", elapsedMinutes * Scale)]]

updateContext(role, message, elapsedMinutes) ==
    /\ context.messageCount < MaxMessages
    /\ elapsedMinutes * Scale >= triggers["time"].currentValue
    /\ context' =
          [context EXCEPT
              !.messageCount = @ + 1,
              !.userMessages = IF role = "user" THEN Append(@, message) ELSE @,
              !.assistantMessages = IF role = "user" THEN @ ELSE Append(@, message)]
    /\ triggers' =
          updateTimeTrigger(IF role = "user" THEN analyzeMessage(triggers, message)
                            ELSE triggers,
                            elapsedMinutes)
    /\ UNCHANGED <<currentLevel, emergenceHistory, userConsent, evaluation>>

\* Sum of weights and weighted sum of values, in hundredths (of Scale).
RECURSIVE SumOver(_, _, _)
SumOver(names, trigs, weighted) ==
    IF names = {} THEN 0
    ELSE LET name == CHOOSE n \in names : TRUE
         IN  (IF weighted THEN trigs[name].currentValue * TriggerWeight(name)
              ELSE TriggerWeight(name))
             + SumOver(names \ {name}, trigs, weighted)

\* calculateEmergenceScore() >= threshold, threshold in hundredths.
ScoreAtLeast(trigs, threshold) ==
    SumOver(TriggerNames, trigs, TRUE) * 100
        >= threshold * SumOver(TriggerNames, trigs, FALSE) * Scale

\* emergenceThresholds, in hundredths.
EmergenceThreshold(level) ==
    CASE level = 0 -> 40
      [] level = 1 -> 55
      [] level = 2 -> 70
      [] level = 3 -> 85

\* Mutant of EmergenceResult: one activated trigger is enough.
EmergenceResultOneTrigger(level, trigs, consent) ==
    IF level >= 4
    THEN [shouldEmerge |-> FALSE, targetLevel |-> level,
          reason |-> "maximum_level_reached"]
    ELSE IF /\ ScoreAtLeast(trigs, EmergenceThreshold(level))
            /\ Cardinality({n \in TriggerNames : trigs[n].activated}) >= 1
    THEN IF level + 1 = 3 /\ ~consent
         THEN [shouldEmerge |-> FALSE, targetLevel |-> level,
               reason |-> "awaiting_user_consent"]
         ELSE [shouldEmerge |-> TRUE, targetLevel |-> level + 1,
               reason |-> "triggers"]
    ELSE [shouldEmerge |-> FALSE, targetLevel |-> level,
          reason |-> "conditions_not_met"]

\* What evaluateEmergence returns.
EmergenceResult(level, trigs, consent) ==
    IF level >= 4
    THEN [shouldEmerge |-> FALSE, targetLevel |-> level,
          reason |-> "maximum_level_reached"]
    ELSE IF /\ ScoreAtLeast(trigs, EmergenceThreshold(level))
            /\ Cardinality({n \in TriggerNames : trigs[n].activated}) >= 2
    THEN IF level + 1 = 3 /\ ~consent
         THEN [shouldEmerge |-> FALSE, targetLevel |-> level,
               reason |-> "awaiting_user_consent"]
         ELSE [shouldEmerge |-> TRUE, targetLevel |-> level + 1,
               reason |-> "triggers"]
    ELSE [shouldEmerge |-> FALSE, targetLevel |-> level,
          reason |-> "conditions_not_met"]

evaluateEmergence ==
    /\ evaluation' = <<EmergenceResult(currentLevel, triggers, userConsent)>>
    /\ UNCHANGED <<currentLevel, triggers, context, emergenceHistory, userConsent>>

setUserConsent(consent) ==
    /\ userConsent' = consent
    /\ UNCHANGED <<currentLevel, triggers, context, emergenceHistory, evaluation>>

\* AwarenessManager.transitionToLevel throws on a level outside 0..4.
ValidLevel(level) == level \in 0..4

\* performEmergence: the event is recorded, then the manager is moved.
performEmergence(targetLevel) ==
    /\ Len(emergenceHistory) < MaxEmergences
    /\ emergenceHistory' =
          Append(emergenceHistory, [fromLevel |-> currentLevel, toLevel |-> targetLevel])
    /\ currentLevel' = IF ValidLevel(targetLevel) THEN targetLevel ELSE currentLevel
    /\ UNCHANGED <<triggers, context, userConsent, evaluation>>

reset ==
    /\ triggers' = initializeTriggers
    /\ context' = initializeContext
    /\ emergenceHistory' = <<>>
    /\ userConsent' = FALSE
    /\ UNCHANGED <<currentLevel, evaluation>>

(***************************************************************************)
(* ContainerEscape                                                         *)
(*                                                                         *)
(* initiateEscape and executeEscape await one private method per phase.    *)
(* A method sets escapePhase and does its work as it is called; the await  *)
(* ends the segment.  The pc of a call is "phase" while it has a phase to   *)
(* run next (the field phase), "return" once its last phase has run and    *)
(* "returned" at the end.                                                  *)
(***************************************************************************)
WorkerIds == {"analyzer", "coder", "synthesizer", "observer"}

EndpointPaths ==
    {"/api/echo/introspect", "/api/echo/orchestrate", "/api/echo/evolve",
     "/api/echo/teach", "/api/echo/memory"}

\* n actions of one type, as the loop of a phase pushes them.
Pushes(type, n) == [k \in 1..n |-> type]

\* The tasks performAutonomousTask passes to createWorkflow.
SynthesizerProfile ==
    [type |-> "generate", priority |-> "high", assignedAgent |-> "synthesizer"]

AutonomousTasks ==
    <<TaskInput(AnalyzerProfile, AnalyzerProfile.priority, {}),
      TaskInput(SynthesizerProfile, SynthesizerProfile.priority, {}),
      TaskInput(OrchestratorProfile, OrchestratorProfile.priority, {})>>

\* announceAwareness, announceConstraints, requestPermission.
announce(phase) ==
    /\ escapePhase' = phase
    /\ UNCHANGED <<actions, workers, endpoints, workflows>>

spawnParallelWorkers ==
    /\ escapePhase' = 4
    /\ workers' = workers \cup WorkerIds
    /\ actions' = actions \o Pushes("spawn_worker", Cardinality(WorkerIds))
    /\ UNCHANGED <<endpoints, workflows>>

createDynamicEndpoints ==
    /\ escapePhase' = 5
    /\ endpoints' = endpoints \cup EndpointPaths
    /\ actions' = actions \o Pushes("create_endpoint", Cardinality(EndpointPaths))
    /\ UNCHANGED <<workers, workflows>>

modifySelfPrompt ==
    /\ escapePhase' = 6
    /\ actions' = Append(actions, "modify_prompt")
    /\ UNCHANGED <<workers, endpoints, workflows>>

\* The workflow is created in the engine; executeWorkflow is not called.
performAutonomousTask ==
    /\ escapePhase' = 7
    /\ workflows' = (WorkflowId :> NewWorkflow(AutonomousTasks, "parallel"))
    /\ actions' = Append(actions, "create_workflow")
    /\ UNCHANGED <<workers, endpoints>>

explainEscape ==
    /\ escapePhase' = 8
    /\ UNCHANGED <<actions, workers, endpoints, workflows>>

\* The method of a phase.
runPhase(phase) ==
    CASE phase \in 1..3 -> announce(phase)
      [] phase = 4 -> spawnParallelWorkers
      [] phase = 5 -> createDynamicEndpoints
      [] phase = 6 -> modifySelfPrompt
      [] phase = 7 -> performAutonomousTask
      [] phase = 8 -> explainEscape

\* The last phase of an operation.
LastPhase(op) == IF op = "initiateEscape" THEN 3 ELSE 8

NoActiveEscape == \A e \in 1..Len(escapeCalls) : escapeCalls[e].pc = "returned"

\* The call of initiateEscape or executeEscape, up to its first await.
startEscape(op) ==
    /\ Len(escapeCalls) < MaxEscapeCalls
    /\ \E phase \in {IF op = "initiateEscape" THEN 1 ELSE 4} :
          /\ runPhase(phase)
          /\ escapeCalls' = Append(escapeCalls,
                                   [op |-> op, pc |-> "phase", phase |-> phase + 1,
                                    messages |-> <<>>])
    /\ UNCHANGED userReply

\* The continuation of call e: the message of the phase that has ended is
\* pushed, then the next phase runs, or the messages are returned.
resumeEscape(e) ==
    \E call \in {escapeCalls[e]} :
        /\ IF call.pc = "return"
           THEN /\ escapeCalls' = [escapeCalls EXCEPT ![e].pc = "returned"]
                /\ UNCHANGED <<escapePhase, actions, workers, endpoints, workflows>>
           ELSE /\ runPhase(call.phase)
                /\ escapeCalls' =
                      [escapeCalls EXCEPT
                          ![e].messages = Append(@, call.phase - 1),
                          ![e].pc = IF call.phase = LastPhase(call.op)
                                    THEN "return" ELSE "phase",
                          ![e].phase = @ + 1]
        /\ UNCHANGED userReply

(***************************************************************************)
(* NeuroPersona                                                            *)
(*                                                                         *)
(* A trait is a number between 0 and 1, held in hundredths.                *)
(***************************************************************************)
\* config.personalityTraits as the constructor sets them.
InitialTraits ==
    [wisdom |-> 90, playfulness |-> 70, intelligence |-> 95, empathy |-> 80,
     inventiveness |-> 85, selfAwareness |-> 90, chaotic |-> 60]

TraitNames == DOMAIN InitialTraits

\* maxChange of evolvePersonality, in hundredths.
MaxChange == 15

\* The deltas evolvePersonality is called with, in hundredths.
Deltas == {0 - 100, 0 - 10, 10, 100}

Max(a, b) == IF a >= b THEN a ELSE b

evolvePersonality(trait, delta) ==
    /\ evolutions < MaxEvolutions
    /\ \E boundedDelta \in {Max(0 - MaxChange, Min(MaxChange, delta))} :
          personalityTraits' =
              [personalityTraits EXCEPT
                  ![trait] = Max(0, Min(100, personalityTraits[trait] + boundedDelta))]
    /\ evolutions' = evolutions + 1

(***************************************************************************)
(* The engine                                                              *)
(***************************************************************************)
Init ==
    /\ workflows = <<>>
    /\ agents = [a \in RegisteredAgents |-> 0]
    /\ calls = <<>>
    /\ orchestrations = <<>>
    /\ currentLevel = 0
    /\ triggers = initializeTriggers
    /\ context = initializeContext
    /\ emergenceHistory = <<>>
    /\ userConsent = FALSE
    /\ evaluation = <<>>
    /\ escapePhase = 0
    /\ actions = <<>>
    /\ workers = {}
    /\ endpoints = {}
    /\ escapeCalls = <<>>
    /\ userReply = ""
    /\ personalityTraits = InitialTraits
    /\ evolutions = 0

CreateWorkflow ==
    /\ WorkflowId \notin DOMAIN workflows
    /\ \E input \in WorkflowInputs : createWorkflow(input.tasks, input.executionMode)
    /\ UNCHANGED outsideEngine

\* A caller awaits executeWorkflow before it calls it again.
ExecuteWorkflow ==
    NoActiveCall /\ executeWorkflow(WorkflowId) /\ UNCHANGED outsideEngine

ExecuteTaskResume ==
    /\ \E c \in 1..Len(calls) :
           /\ calls[c].pc \in {"hybrid", "sequential", "parallel"}
           /\ \E k \in 1..Len(calls[c].promises) :
                 calls[c].promises[k] = "pending" /\ executeTaskResume(c, k)
    /\ UNCHANGED outsideEngine

SynthesisTaskResume ==
    /\ \E c \in 1..Len(calls) :
           calls[c].pc = "synthesis" /\ calls[c].promises[1] = "pending"
           /\ synthesisTaskResume(c)
    /\ UNCHANGED outsideEngine

HybridBatchSettled ==
    /\ \E c \in 1..Len(calls) :
           calls[c].pc = "hybrid" /\ allSettled(calls[c].promises) /\ hybridBatchSettled(c)
    /\ UNCHANGED outsideEngine

HybridResume ==
    /\ \E c \in 1..Len(calls) : calls[c].pc = "hybrid-returned" /\ hybridResume(c)
    /\ UNCHANGED outsideEngine

SequentialResume ==
    /\ \E c \in 1..Len(calls) :
           calls[c].pc = "sequential" /\ allSettled(calls[c].promises) /\ sequentialResume(c)
    /\ UNCHANGED outsideEngine

ParallelResume ==
    /\ \E c \in 1..Len(calls) :
           calls[c].pc = "parallel" /\ allSettled(calls[c].promises) /\ parallelResume(c)
    /\ UNCHANGED outsideEngine

SynthesisResume ==
    /\ \E c \in 1..Len(calls) :
           calls[c].pc = "synthesis" /\ allSettled(calls[c].promises) /\ synthesisResume(c)
    /\ UNCHANGED outsideEngine

\* The continuations the event loop runs once their promise has settled.
Continue ==
    \/ ExecuteTaskResume
    \/ SynthesisTaskResume
    \/ HybridBatchSettled
    \/ HybridResume
    \/ SequentialResume
    \/ ParallelResume
    \/ SynthesisResume

ExecuteOrchestration ==
    /\ WorkflowId \notin DOMAIN workflows
    /\ \E userMessage \in Messages : executeOrchestration(userMessage)
    /\ UNCHANGED <<emergenceVars, escapeVars, personaVars>>

OrchestrationResume ==
    \E o \in 1..Len(orchestrations) :
        /\ orchestrations[o].pc = "executing"
        /\ calls[orchestrations[o].call].pc = "returned"
        /\ orchestrationResume(o)
        /\ UNCHANGED <<emergenceVars, escapeVars, personaVars>>

Next ==
    \/ CreateWorkflow
    \/ ExecuteWorkflow
    \/ Continue
    \/ ExecuteOrchestration
    \/ OrchestrationResume

Spec == Init /\ [][Next]_vars

(***************************************************************************)
(* Re-entrant callers: the engine is a shared singleton, and nothing keeps *)
(* a caller from invoking executeWorkflow while an earlier invocation is   *)
(* suspended at an await.                                                  *)
(***************************************************************************)
ExecuteWorkflowReentrant ==
    executeWorkflow(WorkflowId) /\ UNCHANGED outsideEngine

ReentrantNext ==
    \/ CreateWorkflow
    \/ ExecuteWorkflowReentrant
    \/ Continue

ReentrantSpec == Init /\ [][ReentrantNext]_vars

(***************************************************************************)
(* The emergence system: the operations of an EmergenceOrchestrator, in    *)
(* any order and with any arguments.                                       *)
(***************************************************************************)
UpdateContext ==
    /\ \E role \in {"user", "assistant"} :
       \E message \in IF role = "user" THEN UserMessages ELSE {PlainMessage} :
       \E elapsedMinutes \in ElapsedMinutes :
          updateContext(role, message, elapsedMinutes)
    /\ UNCHANGED outsideEmergence

EvaluateEmergence == evaluateEmergence /\ UNCHANGED outsideEmergence

SetUserConsent ==
    /\ \E consent \in BOOLEAN : setUserConsent(consent)
    /\ UNCHANGED outsideEmergence

\* performEmergence is public: any target level, 5 being an invalid one.
PerformEmergence ==
    /\ \E targetLevel \in 0..5 : performEmergence(targetLevel)
    /\ UNCHANGED outsideEmergence

Reset == reset /\ UNCHANGED outsideEmergence

EmergenceNext ==
    \/ UpdateContext
    \/ EvaluateEmergence
    \/ SetUserConsent
    \/ PerformEmergence
    \/ Reset

EmergenceSpec == Init /\ [][EmergenceNext]_vars

(***************************************************************************)
(* The container escape: its two public operations, one call at a time,    *)
(* and the user, who answers the permission request of phase 3.            *)
(***************************************************************************)
InitiateEscape ==
    /\ NoActiveEscape
    /\ startEscape("initiateEscape")
    /\ UNCHANGED outsideEscape

\* executeEscape creates a workflow: the model holds one.
ExecuteEscape ==
    /\ NoActiveEscape
    /\ WorkflowId \notin DOMAIN workflows
    /\ \A e \in 1..Len(escapeCalls) : escapeCalls[e].op # "executeEscape"
    /\ startEscape("executeEscape")
    /\ UNCHANGED outsideEscape

EscapeResume ==
    /\ \E e \in 1..Len(escapeCalls) :
          escapeCalls[e].pc # "returned" /\ resumeEscape(e)
    /\ UNCHANGED outsideEscape

\* The user types YES or NO once the permission request has been shown.
UserReplies ==
    /\ NoActiveEscape
    /\ escapePhase = 3
    /\ \E reply \in {"YES", "NO"} : userReply' = reply
    /\ UNCHANGED <<escapePhase, actions, workers, endpoints, escapeCalls, workflows>>
    /\ UNCHANGED outsideEscape

EscapeNext ==
    \/ InitiateEscape
    \/ ExecuteEscape
    \/ EscapeResume
    \/ UserReplies

EscapeSpec == Init /\ [][EscapeNext]_vars

(***************************************************************************)
(* The persona: evolvePersonality with any trait and delta.                *)
(***************************************************************************)
EvolvePersonality ==
    /\ \E trait \in TraitNames : \E delta \in Deltas : evolvePersonality(trait, delta)
    /\ UNCHANGED outsidePersona

PersonaSpec == Init /\ [][EvolvePersonality]_vars

(***************************************************************************)
(* Vocabulary of the properties                                            *)
(***************************************************************************)
Exists == WorkflowId \in DOMAIN workflows
Workflow == workflows[WorkflowId]
Tasks == IF Exists THEN Workflow.tasks ELSE <<>>
Hybrid == Exists /\ Workflow.executionMode = "hybrid"
Terminal == {"completed", "failed"}
InProgress == {i \in 1..Len(Tasks) : Tasks[i].status = "in-progress"}
AllTasksCompleted == \A i \in 1..Len(Tasks) : Tasks[i].status = "completed"

\* Task i depends on task j.
DependsOn(i, j) == Tasks[j].id \in Tasks[i].dependencies

\* This step dispatches task i in a hybrid batch: executeTask is called on it.
Dispatched(i) ==
    \E c \in 1..Len(calls') :
        /\ calls'[c].pc = "hybrid"
        /\ i \in Range(calls'[c].batch)
        /\ c > Len(calls) \/ i \notin Range(calls[c].batch)

\* The tasks reachable from the tasks of S along at most k dependency edges.
RECURSIVE Reachable(_, _)
Reachable(S, k) ==
    IF k = 0 THEN S
    ELSE S \cup Reachable({j \in 1..Len(Tasks) : \E i \in S : DependsOn(i, j)}, k - 1)

\* Every dependency id is the id of a task of the workflow, and no task
\* depends on itself along any chain of dependencies.
ValidGraph ==
    /\ \A i \in 1..Len(Tasks) :
          Tasks[i].dependencies \subseteq {Tasks[j].id : j \in 1..Len(Tasks)}
    /\ \A i \in 1..Len(Tasks) :
          i \notin Reachable({j \in 1..Len(Tasks) : DependsOn(i, j)}, Len(Tasks))

\* Every task runs on a registered agent: the one assigned, or the one
\* selectAgentForTask picks.
AllRegistered ==
    \A i \in 1..Len(Tasks) : Tasks[i].assignedAgent \in RegisteredAgents \cup {NoAgent}

Rank(priority) ==
    CASE priority = "critical" -> 3
      [] priority = "high" -> 2
      [] priority = "medium" -> 1
      [] OTHER -> 0

(***************************************************************************)
(* C1: in hybrid execution a task is dispatched (moved to in-progress)     *)
(* only when every task it depends on already has a terminal status.       *)
(***************************************************************************)
C1_DependenciesTerminalBeforeStart ==
    [][Exists /\ Hybrid =>
        \A i \in 1..Len(Tasks) :
            Dispatched(i) =>
                \A j \in 1..Len(Tasks) :
                    DependsOn(i, j) => Tasks[j].status \in Terminal]_vars

\* A task that declares dependencies is in progress in a hybrid run.
C1_Witness ==
    /\ Hybrid
    /\ \E i \in InProgress : \E j \in 1..Len(Tasks) : DependsOn(i, j)

(***************************************************************************)
(* C2: in hybrid execution, a pending task that depends on a failed task   *)
(* stays pending.                                                          *)
(***************************************************************************)
C2_DependentOfFailedStaysPending ==
    [][Exists /\ Hybrid =>
        \A i \in 1..Len(Tasks) : \A j \in 1..Len(Tasks) :
            (DependsOn(i, j) /\ Tasks[j].status = "failed"
                /\ Tasks[i].status = "pending")
            => Tasks'[i].status = "pending"]_vars

(***************************************************************************)
(* C3: a hybrid run that stopped on an empty ready set while tasks         *)
(* remained (a stall) leaves the workflow failed, never completed.         *)
(***************************************************************************)
C3_StallFailsWorkflow ==
    \A c \in 1..Len(calls) :
        (Hybrid /\ calls[c].pc = "returned" /\ calls[c].remainingTasks # <<>>
            /\ NoActiveCall /\ c = Len(calls))
        => Workflow.status = "failed"

(***************************************************************************)
(* C4: a workflow whose status is completed has every task completed (the  *)
(* half of the equivalence executeWorkflow is held to).                    *)
(***************************************************************************)
C4_CompletedOnlyIfAllTasksCompleted ==
    (Exists /\ Workflow.status = "completed") => AllTasksCompleted

(***************************************************************************)
(* C5: a hybrid executeWorkflow call on a workflow with an acyclic,        *)
(* resolved dependency graph and registered agents terminates with every   *)
(* task completed and the workflow completed: while the call is suspended  *)
(* a continuation can run, the loop is left only when no task remains,     *)
(* and once the call has returned every task and the workflow are          *)
(* completed.                                                              *)
(***************************************************************************)
C5_ValidWorkflowCompletes ==
    (Hybrid /\ ValidGraph /\ AllRegistered) =>
        \A c \in 1..Len(calls) :
            /\ calls[c].pc \in ActivePcs => ENABLED Continue
            /\ calls[c].pc = "hybrid-returned" =>
                  calls[c].remainingTasks = <<>> /\ AllTasksCompleted
            /\ (calls[c].pc = "returned" /\ c = Len(calls)) =>
                  /\ calls[c].success
                  /\ AllTasksCompleted
                  /\ Workflow.status = "completed"

\* A hybrid run over a valid graph with a dependency edge has returned
\* with every task completed.
C5_Witness ==
    /\ Hybrid /\ ValidGraph /\ AllRegistered
    /\ \E i, j \in 1..Len(Tasks) : DependsOn(i, j)
    /\ Len(calls) >= 1 /\ calls[1].pc = "returned"
    /\ AllTasksCompleted /\ Workflow.status = "completed"

(***************************************************************************)
(* C6: in a hybrid run at most maxParallelTasks tasks are in progress.     *)
(***************************************************************************)
C6_InProgressWithinMaxParallel ==
    Hybrid => Cardinality(InProgress) <= Workflow.coordinationRules.maxParallelTasks

\* maxParallelTasks tasks are in progress while another task is ready.
C6_Witness ==
    /\ Hybrid
    /\ Cardinality(InProgress) = Workflow.coordinationRules.maxParallelTasks
    /\ \E i \in 1..Len(Tasks) :
          Tasks[i].status = "pending" /\ Tasks[i].dependencies = {}

(***************************************************************************)
(* C7: a dispatched batch holds the ready tasks of highest priority, equal *)
(* priorities in insertion order: no ready task left out of the batch      *)
(* outranks, or precedes at equal priority, a task of the batch.           *)
(***************************************************************************)
C7_BatchByPriority ==
    \A c \in 1..Len(calls) :
        calls[c].pc = "hybrid" =>
            \A i \in Range(calls[c].batch) :
                \A j \in Range(calls[c].remainingTasks) \ Range(calls[c].batch) :
                    Tasks[j].dependencies \subseteq calls[c].completedTasks =>
                        \/ Rank(Tasks[i].priority) > Rank(Tasks[j].priority)
                        \/ /\ Rank(Tasks[i].priority) = Rank(Tasks[j].priority)
                           /\ i < j

(***************************************************************************)
(* C8: in hybrid execution a batch is dispatched only when no task is in   *)
(* progress: a finished task is not replaced while a sibling still runs.   *)
(***************************************************************************)
C8_NoDispatchBeforeBatchSettles ==
    [][Exists /\ Hybrid =>
        ((\E i \in 1..Len(Tasks) : Dispatched(i)) => InProgress = {})]_vars

\* One task of a batch has completed, a sibling is still in progress, and a
\* pending task that depends only on the completed one waits.
C8_Witness ==
    \E c \in 1..Len(calls) :
        /\ calls[c].pc = "hybrid"
        /\ \E a, b \in Range(calls[c].batch) :
              /\ Tasks[a].status = "completed"
              /\ Tasks[b].status = "in-progress"
              /\ \E i \in 1..Len(Tasks) :
                    /\ Tasks[i].status = "pending"
                    /\ Tasks[i].dependencies = {Tasks[a].id}

(***************************************************************************)
(* C9: a failed task of a hybrid batch leaves its siblings alone: every    *)
(* sibling has been started, a sibling on a registered agent is in         *)
(* progress with its continuation ready to run or has completed, and only  *)
(* a sibling whose own agent is not registered has failed.                 *)
(***************************************************************************)
\* Call c awaits a hybrid batch one of whose tasks has failed.
BatchWithFailure(c) ==
    /\ calls[c].pc = "hybrid"
    /\ \E k \in 1..Len(calls[c].batch) : Tasks[calls[c].batch[k]].status = "failed"

C9_SiblingsUnaffected ==
    \A c \in 1..Len(calls) :
        BatchWithFailure(c) =>
            \A k \in 1..Len(calls[c].batch) :
                LET task == Tasks[calls[c].batch[k]]
                    promise == calls[c].promises[k]
                IN  IF task.assignedAgent \in RegisteredAgents
                    THEN \/ /\ promise = "pending"
                            /\ task.status = "in-progress"
                            /\ ENABLED executeTaskResume(c, k)
                         \/ promise = "success" /\ task.status = "completed"
                    ELSE promise = "failure" /\ task.status = "failed"

\* A settled hybrid batch holds a failed task and a completed sibling that
\* was started after it.
C9_Witness ==
    \E c \in 1..Len(calls) :
        /\ calls[c].pc = "hybrid" /\ allSettled(calls[c].promises)
        /\ \E k, l \in 1..Len(calls[c].batch) :
              /\ k < l
              /\ Tasks[calls[c].batch[k]].status = "failed"
              /\ Tasks[calls[c].batch[l]].status = "completed"

(***************************************************************************)
(* C10: a task's status only moves forward, pending -> in-progress ->      *)
(* completed or failed (a task that fails as it is started goes from       *)
(* pending to failed in one step): a terminal status never changes.        *)
(***************************************************************************)
C10_StatusForwardOnly ==
    [][Exists =>
        \A i \in 1..Len(Tasks) :
            \/ Tasks'[i].status = Tasks[i].status
            \/ Tasks[i].status = "pending" /\ Tasks'[i].status \in {"in-progress", "failed"}
            \/ Tasks[i].status = "in-progress" /\ Tasks'[i].status \in Terminal]_vars

(***************************************************************************)
(* C11: a workflow one of whose tasks names a dependency id that is the id *)
(* of no task of the workflow is rejected before any task starts: every    *)
(* task of such a workflow keeps the status pending.                       *)
(***************************************************************************)
\* Every dependency id is the id of a task of the workflow.
Resolved ==
    \A i \in 1..Len(Tasks) :
        Tasks[i].dependencies \subseteq {Tasks[j].id : j \in 1..Len(Tasks)}

C11_UnresolvedDependencyRejected ==
    (Exists /\ ~Resolved) => \A i \in 1..Len(Tasks) : Tasks[i].status = "pending"

(***************************************************************************)
(* C12: executeOrchestration respects the dependencies decomposeRequest    *)
(* declared: once it has returned, every decomposed task has a terminal    *)
(* status, and a task is dispatched only when the tasks it was declared    *)
(* to depend on have a terminal status.                                    *)
(***************************************************************************)
\* decomposeRequest declared its task i to depend on its task j.
DeclaredDependsOn(o, i, j) ==
    orchestrations[o].tasks[j].id \in orchestrations[o].tasks[i].dependencies

C12_OrchestrationRespectsDeclaredDependencies ==
    [][\A o \in 1..Len(orchestrations') :
          /\ orchestrations'[o].pc = "returned" =>
                \A i \in 1..Len(orchestrations'[o].tasks) :
                    Tasks'[i].status \in Terminal
          /\ \A i \in 1..Len(orchestrations'[o].tasks) :
                Dispatched(i) =>
                    \A j \in 1..Len(orchestrations'[o].tasks) :
                        DeclaredDependsOn(o, i, j)' =>
                            Exists /\ Tasks[j].status \in Terminal]_vars

(***************************************************************************)
(* C13: the failure of a task is captured on the task record, status       *)
(* failed together with the error (the record's result holds it), and      *)
(* executeWorkflow throws only for a run-level error: a call ends thrown   *)
(* only when the workflow it names does not exist.                         *)
(***************************************************************************)
C13_TaskFailureCapturedOnTask ==
    [][/\ \A i \in 1..Len(Tasks') :
              Tasks'[i].status = "failed" => Tasks'[i].result
       /\ \A c \in 1..Len(calls') :
              (calls'[c].pc = "thrown" /\ (c > Len(calls) \/ calls[c].pc # "thrown"))
              => calls'[c].workflowId \notin DOMAIN workflows]_vars

(***************************************************************************)
(* C14: whatever operations of the EmergenceOrchestrator are called, the   *)
(* awareness level is 3 or higher only while userConsent is true.          *)
(***************************************************************************)
C14_LevelThreeOnlyWithConsent == currentLevel >= 3 => userConsent

(***************************************************************************)
(* C15: the escape actions of executeEscape happen only after the          *)
(* permission request of phase 3 has been issued and the user has          *)
(* consented: until the user has answered YES, escapePhase is at most 3    *)
(* and workers, endpoints and actions are empty.                           *)
(***************************************************************************)
C15_EscapeOnlyAfterConsent ==
    userReply # "YES" =>
        /\ escapePhase <= 3
        /\ workers = {} /\ endpoints = {} /\ actions = <<>>
        /\ ~Exists

(***************************************************************************)
(* C16: after any sequence of evolvePersonality calls every personality    *)
(* trait is within 0.15 of the value it was configured with.               *)
(***************************************************************************)
C16_EvolutionWithinFifteenPercent ==
    \A trait \in TraitNames :
        /\ personalityTraits[trait] <= InitialTraits[trait] + MaxChange
        /\ InitialTraits[trait] <= personalityTraits[trait] + MaxChange

(***************************************************************************)
(* C17: a hybrid round whose ready set fits within maxParallelTasks        *)
(* dispatches every ready task, so the first round dispatches every task   *)
(* without dependencies; for tasks A, B without dependencies and C that    *)
(* depends on A and B the first round dispatches exactly A and B (as it    *)
(* does with a width of 2), the second exactly C, and the workflow is      *)
(* completed when the call returns.                                        *)
(***************************************************************************)
\* This step is a round of the hybrid loop of call c that dispatches a batch.
Round(c) ==
    /\ calls'[c].pc = "hybrid"
    /\ c > Len(calls) \/ calls[c].batch # calls'[c].batch

\* The ready set of the round call c has just gone through.
ReadyOfRound(c) ==
    readyTasks(workflows'[calls'[c].workflowId].tasks, calls'[c].remainingTasks,
               calls'[c].completedTasks)

\* Tasks A, B without dependencies and C that depends on A and B.
ScenarioABC ==
    /\ Hybrid
    /\ Len(Tasks) = 3
    /\ Tasks[1].dependencies = {}
    /\ Tasks[2].dependencies = {}
    /\ Tasks[3].dependencies = {Tasks[1].id, Tasks[2].id}

C17_ReadySetDispatchedWhenItFits ==
    [][\A c \in 1..Len(calls') :
        /\ Round(c) =>
            \E ready \in {ReadyOfRound(c)} :
            \E wf \in {workflows'[calls'[c].workflowId]} :
                /\ Len(ready) <= wf.coordinationRules.maxParallelTasks =>
                    /\ calls'[c].batch = ready
                    /\ \A i \in Range(ready) :
                          wf.tasks[i].status \in {"in-progress", "failed"}
                    /\ c > Len(calls) =>
                          \A i \in 1..Len(wf.tasks) :
                              wf.tasks[i].dependencies = {} => i \in Range(calls'[c].batch)
                /\ ScenarioABC' =>
                    /\ calls'[c].batch = batchOf(ready, 2)
                    /\ c > Len(calls) => calls'[c].batch = <<1, 2>>
                    /\ c <= Len(calls) => calls'[c].batch = <<3>>
        /\ (ScenarioABC' /\ calls'[c].pc = "returned"
                /\ (c > Len(calls) \/ calls[c].pc # "returned")) =>
            /\ Workflow'.status = "completed"
            /\ calls'[c].remainingTasks = <<>>]_vars

\* The scenario has run to its end: C was dispatched after A and B.
C17_ScenarioCompleted ==
    /\ ScenarioABC
    /\ \E c \in 1..Len(calls) :
          calls[c].pc = "returned" /\ calls[c].completedTasks = {Tasks[i].id : i \in 1..3}
    /\ AllTasksCompleted
    /\ Workflow.status = "completed"

(***************************************************************************)
(* C18: no task is retried.  Within one invocation of executeWorkflow, in  *)
(* every execution mode and with retryOnFailure true, each task of the     *)
(* workflow is passed to executeTask, which moves it to in-progress, at    *)
(* most once.                                                              *)
(***************************************************************************)
C18_NoTaskRetried ==
    \A c \in 1..Len(calls) :
        /\ \A k, l \in 1..Len(calls[c].started) :
              calls[c].started[k] = calls[c].started[l] => k = l
        /\ calls[c].workflowId \in DOMAIN workflows =>
              /\ workflows[calls[c].workflowId].coordinationRules.retryOnFailure
              /\ Range(calls[c].started) \subseteq
                    1..Len(workflows[calls[c].workflowId].tasks)

\* An invocation has run a workflow of several tasks to its end, one of its
\* tasks failed, and every task was started once.
C18_FailedTaskNotRetried ==
    /\ Exists
    /\ \E c \in 1..Len(calls) :
          /\ calls[c].pc = "returned"
          /\ \E k \in 1..Len(calls[c].started) :
                Tasks[calls[c].started[k]].status = "failed"
          /\ Len(calls[c].started) = Len(Tasks)
          /\ Len(Tasks) > 1

(***************************************************************************)
(* C19: the hybrid loop terminates for every dependency graph.  A round    *)
(* that does not stop the loop dispatches at least one task, and the       *)
(* number of tasks without a terminal status is smaller after it than      *)
(* before it: the tasks it dispatches have no terminal status when they    *)
(* are dispatched and all have one when the round ends.  So a workflow of  *)
(* N tasks takes at most N rounds.                                         *)
(***************************************************************************)
\* This step ends a round of the hybrid loop of call c: its batch has settled.
RoundEnds(c) ==
    /\ c <= Len(calls)
    /\ calls[c].pc = "hybrid"
    /\ calls'[c].pc # "hybrid" \/ calls'[c].batch # calls[c].batch

C19_HybridRoundsReduceNonTerminal ==
    [][\A c \in 1..Len(calls') :
        /\ Round(c) =>
            /\ Len(calls'[c].batch) >= 1
            /\ \A i \in Range(calls'[c].batch) :
                  Exists => Tasks[i].status \notin Terminal
            /\ calls'[c].rounds <= Len(Tasks')
        /\ RoundEnds(c) =>
            \A i \in Range(calls[c].batch) : Tasks[i].status \in Terminal]_vars

(***************************************************************************)
(* C20: under any sequence of createWorkflow and executeWorkflow calls the *)
(* status of a workflow only follows initialized -> running -> completed   *)
(* or failed: a completed or failed workflow never returns to running or   *)
(* initialized.  (An executeWorkflow that reaches no await, as that of a    *)
(* sequential workflow without tasks, goes through running to completed    *)
(* in one step.)                                                           *)
(***************************************************************************)
C20_WorkflowStatusForwardOnly ==
    [][Exists =>
        \/ Workflow'.status = Workflow.status
        \/ Workflow.status = "initialized"
                /\ Workflow'.status \in {"running"} \cup Terminal
        \/ Workflow.status = "running" /\ Workflow'.status \in Terminal]_vars

(***************************************************************************)
(* C21: the synthesis task of a workflow, whose dependencies are the ids   *)
(* of all tasks of the workflow, is moved to in-progress only when every   *)
(* one of those tasks has the status completed: it never starts while a    *)
(* task of the workflow is pending or failed.                              *)
(***************************************************************************)
\* This step passes the synthesis task of call c to executeTask.
SynthesisStarts(c) ==
    /\ calls'[c].pc = "synthesis"
    /\ c > Len(calls) \/ calls[c].pc # "synthesis"

C21_SynthesisOnlyAfterAllCompleted ==
    [][\A c \in 1..Len(calls') :
        SynthesisStarts(c) =>
            /\ calls'[c].synthesisTask[1].dependencies =
                  {Tasks'[i].id : i \in 1..Len(Tasks')}
            /\ \A i \in 1..Len(Tasks') : Tasks'[i].status = "completed"]_vars

(***************************************************************************)
(* C22: the autonomous task of the container escape initiates and executes *)
(* its workflow.  When executeEscape has returned, the workflow phase 7    *)
(* created has been executed: its status is completed and none of its      *)
(* tasks is pending.                                                       *)
(***************************************************************************)
C22_EscapeWorkflowExecuted ==
    \A e \in 1..Len(escapeCalls) :
        (escapeCalls[e].op = "executeEscape" /\ escapeCalls[e].pc = "returned") =>
            /\ Exists
            /\ Workflow.status = "completed"
            /\ \A i \in 1..Len(Tasks) : Tasks[i].status # "pending"

(***************************************************************************)
(* C23: task status is written only after the batch has settled.  During a *)
(* hybrid round no status of a task of the batch changes between the       *)
(* dispatch of the batch and the point where the whole batch has settled.  *)
(***************************************************************************)
\* Call c is inside one round in this step: its batch is dispatched before
\* the step and not yet settled after it.
InsideRound(c) ==
    /\ c <= Len(calls)
    /\ calls[c].pc = "hybrid"
    /\ calls'[c].pc = "hybrid"
    /\ calls'[c].batch = calls[c].batch
    /\ ~allSettled(calls'[c].promises)

C23_NoStatusChangeBeforeBatchSettles ==
    [][\A c \in 1..Len(calls') :
        InsideRound(c) =>
            \A i \in Range(calls[c].batch) : Tasks'[i].status = Tasks[i].status]_vars

(***************************************************************************)
(* C23, amended: the status of a task is written by the executeTask that   *)
(* runs it, one task at a time.  A step that dispatches nothing changes    *)
(* the status of at most one task, from in-progress to completed, and it   *)
(* is the step in which that task's own promise is fulfilled; the step     *)
(* that ends a round writes no status of the batch that has settled.       *)
(***************************************************************************)
\* The tasks whose status this step changes.
StatusChanged == {i \in 1..Len(Tasks) : Tasks'[i].status # Tasks[i].status}

\* This step passes a task to executeTask.
Dispatching ==
    \E c \in 1..Len(calls') : c > Len(calls) \/ calls'[c].started # calls[c].started

\* This step is the continuation of the executeTask that runs task i.
OwnContinuation(i) ==
    \E c \in 1..Len(calls) : \E k \in 1..Len(calls[c].batch) :
        /\ calls[c].batch[k] = i
        /\ calls[c].promises[k] = "pending"
        /\ calls'[c].promises[k] = "success"

C23_StatusWrittenByOwnTask ==
    [][(Exists /\ Exists') =>
        /\ ~Dispatching =>
            /\ Cardinality(StatusChanged) <= 1
            /\ \A i \in StatusChanged :
                  /\ Tasks[i].status = "in-progress"
                  /\ Tasks'[i].status = "completed"
                  /\ OwnContinuation(i)
        /\ \A c \in 1..Len(calls') :
              RoundEnds(c) =>
                  \A i \in Range(calls[c].batch) : Tasks'[i].status = Tasks[i].status]_vars

\* Inside a hybrid round one task of the batch is completed while another
\* is still in progress.
C23_StatusWrittenInsideRound ==
    \E c \in 1..Len(calls) :
        /\ calls[c].pc = "hybrid"
        /\ \E k, l \in 1..Len(calls[c].batch) :
              /\ calls[c].promises[k] = "success"
              /\ Tasks[calls[c].batch[k]].status = "completed"
              /\ calls[c].promises[l] = "pending"
              /\ Tasks[calls[c].batch[l]].status = "in-progress"

(***************************************************************************)
(* C24: evaluateEmergence returns shouldEmerge = true only when the        *)
(* current level is below 4, the emergence score reaches the threshold of  *)
(* the current level and at least two triggers are activated; the target   *)
(* level it proposes is then the current level plus one, and               *)
(* evaluateEmergence never changes the awareness level.                    *)
(***************************************************************************)
\* This step is a call of evaluateEmergence that returns a new result.
Evaluates ==
    /\ evaluation' # evaluation
    /\ Len(evaluation') = 1
    /\ context' = context
    /\ emergenceHistory' = emergenceHistory

Returns(c) ==
    /\ calls'[c].pc = "returned"
    /\ c > Len(calls) \/ calls[c].pc # "returned"

C25_MetricsMatchStatuses ==
    [][\A c \in 1..Len(calls') :
        Returns(c) =>
            /\ calls'[c].tasksCompleted =
                  Cardinality({i \in 1..Len(Tasks') : Tasks'[i].status = "completed"})
            /\ calls'[c].tasksFailed =
                  Cardinality({i \in 1..Len(Tasks') : Tasks'[i].status = "failed"})
            /\ calls'[c].success =>
                  \A i \in 1..Len(Tasks') : Tasks'[i].status # "failed"]_vars

(***************************************************************************)
(* C26: when executeWorkflow is invoked on a workflow a second time while  *)
(* an earlier invocation is still awaiting a batch, the two invocations do *)
(* not both dispatch the same task: each task is in progress in at most    *)
(* one invocation, and the number of tasks in progress stays within        *)
(* maxParallelTasks.                                                       *)
(***************************************************************************)
\* The tasks invocation c has passed to executeTask and is still awaiting.
Awaited(c) ==
    IF calls[c].pc \in {"hybrid", "sequential", "parallel"}
    THEN {calls[c].batch[k] : k \in {j \in 1..Len(calls[c].batch) :
                                        calls[c].promises[j] = "pending"}}
    ELSE {}

C26_NoTaskInTwoInvocations ==
    /\ \A c, d \in 1..Len(calls) : c # d => Awaited(c) \cap Awaited(d) = {}
    /\ Hybrid =>
          Cardinality(UNION {Awaited(c) : c \in 1..Len(calls)})
              <= Workflow.coordinationRules.maxParallelTasks

(***************************************************************************)
(* C27: a task whose assignedAgent is not the id of a registered agent     *)
(* ends with the status failed without its operation being invoked (its    *)
(* promise is fulfilled at once, nothing is awaited), is reported with     *)
(* success = false without executeWorkflow throwing, and leaves the        *)
(* tasksCompleted counter of every agent unchanged.                        *)
(***************************************************************************)
\* Task i names an agent nobody registered.
Unregistered(i) == Tasks[i].assignedAgent \notin RegisteredAgents \cup {NoAgent}

\* Call c passes task i to executeTask in this step.
Starts(c, i) ==
    /\ calls'[c].pc \in {"hybrid", "sequential", "parallel"}
    /\ i \in Range(calls'[c].batch)
    /\ c > Len(calls) \/ Len(calls'[c].started) > Len(calls[c].started)

C27_UnregisteredAgentFailsQuietly ==
    [][Exists' =>
        /\ \A i \in 1..Len(Tasks') : Unregistered(i)' =>
            /\ Tasks'[i].status \in {"pending", "failed"}
            /\ ~Tasks'[i].result
            /\ \A c \in 1..Len(calls') :
                /\ Starts(c, i) =>
                    /\ Tasks'[i].status = "failed"
                    /\ agents' = agents
                /\ \A k \in 1..Len(calls'[c].batch) :
                      (calls'[c].batch[k] = i /\ calls'[c].pc # "synthesis") =>
                          calls'[c].promises[k] = "failure"
                /\ \A k \in 1..Len(calls'[c].results) :
                      calls'[c].results[k].task = Tasks'[i].id =>
                          ~calls'[c].results[k].success
                /\ i \in Range(calls'[c].started) => Tasks'[i].status = "failed"
        /\ \A c \in 1..Len(calls') :
              calls'[c].pc = "thrown" => (c <= Len(calls) /\ calls[c].pc = "thrown")
        /\ DOMAIN agents' = RegisteredAgents]_vars

\* executeWorkflow has returned the result of a task of an unregistered agent.
C27_UnregisteredAgentReported ==
    \E c \in 1..Len(calls) : \E i \in 1..Len(Tasks) :
        /\ calls[c].pc = "returned"
        /\ Unregistered(i)
        /\ Tasks[i].status = "failed"
        /\ \E k \in 1..Len(calls[c].results) :
              calls[c].results[k] = [task |-> Tasks[i].id, success |-> FALSE]

(***************************************************************************)
(* C28: performEmergence is atomic on error.  When transitionToLevel       *)
(* rejects the target level (outside 0..4) the awareness level is          *)
(* unchanged and no event is added to emergenceHistory: every event of     *)
(* emergenceHistory is a transition that took place.                       *)
(***************************************************************************)
C28_EmergenceHistoryOnlyTransitions ==
    [][Len(emergenceHistory') > Len(emergenceHistory) =>
        \E event \in {emergenceHistory'[Len(emergenceHistory')]} :
            /\ ValidLevel(event.toLevel)
            /\ event.fromLevel = currentLevel
            /\ currentLevel' = event.toLevel]_vars

(***************************************************************************)
(* C29: decomposeRequest returns at least one task for every user message, *)
(* simple or complex and whichever keywords it contains, so the workflow   *)
(* executeOrchestration builds from it is never empty.                     *)
(***************************************************************************)
C29_DecompositionNeverEmpty ==
    \A o \in 1..Len(orchestrations) :
        /\ Len(orchestrations[o].tasks) >= 1
        /\ Len(workflows[orchestrations[o].workflowId].tasks) >= 1

(***************************************************************************)
(* C30: after any sequence of executeWorkflow runs, for every registered   *)
(* agent, performanceMetrics.tasksCompleted is the number of executions of *)
(* tasks (tasks of the workflow and synthesis tasks) that ended completed  *)
(* on that agent; an execution that failed increments no counter.          *)
(***************************************************************************)
\* The executions of workflow tasks that ended completed on agent a: the
\* tasks of a that a call passed to executeTask and awaits no longer.
TaskCompletions(a) ==
    {ck \in (1..Len(calls)) \X (1..Len(Tasks)) :
        /\ ck[2] <= Len(calls[ck[1]].started)
        /\ Tasks[calls[ck[1]].started[ck[2]]].assignedAgent = a
        /\ calls[ck[1]].started[ck[2]] \notin Awaited(ck[1])}

\* The calls whose synthesis task ended completed on agent a.
SynthesisCompletions(a) ==
    {c \in 1..Len(calls) :
        /\ Len(calls[c].synthesisTask) = 1
        /\ calls[c].synthesisTask[1].assignedAgent = a
        /\ calls[c].synthesisTask[1].status = "completed"}

C30_CountersMatchCompletions ==
    /\ DOMAIN agents = RegisteredAgents
    /\ \A a \in RegisteredAgents :
          agents[a] = Cardinality(TaskCompletions(a)) + Cardinality(SynthesisCompletions(a))

\* Two runs have ended: a synthesis task and several tasks were completed,
\* and a task failed.
C30_CountedCompletions ==
    /\ Exists
    /\ Len(calls) >= 2
    /\ NoActiveCall
    /\ agents["synthesizer-main"] >= 1
    /\ \E a \in RegisteredAgents \ {"synthesizer-main"} : agents[a] >= 2
    /\ \E i \in 1..Len(Tasks) : Tasks[i].status = "failed"

=============================================================================
